---- MODULE Spec2Model ----
(***************************************************************************)
(* Model of the structured volume-command engine of BattleshipMaker2:      *)
(*   vlm-editing-workflow/src/tool_executor.py   (ToolExecutor)            *)
(*   vlm-editing-workflow/src/volume_selector.py (VolumeSelector)          *)
(*                                                                         *)
(* Python dicts are TLA+ functions whose domain is the set of keys that    *)
(* are present, so d["k"] on an absent key is the KeyError the code would  *)
(* raise.  Strings built by f-strings are built with \o.  Indices are the  *)
(* 0-based indices of Python's enumerate.                                  *)
(***************************************************************************)
EXTENDS Integers, Sequences, FiniteSets, TLC

\* ------------------------------------------------------------------ bounds
\* longest batch (number of commands in tool_calls) that is submitted
MaxBatch == 2
\* longest result list handed directly to generate_execution_report
MaxResults == 3
\* mesh elements handed to the resolver lie on the grid -MaxCoord..MaxCoord
MaxCoord == 2
\* dimensions_xyz components and radii handed to the resolver: 0..MaxDim
MaxDim == 3

\* ------------------------------------------------- Python value helpers
Has(d, k) == k \in DOMAIN d

EmptyDict == <<>>

\* Optional[List[int]]: None, or a list
None == [is_none |-> TRUE]

Some(l) == [list |-> l]

\* str(KeyError(k))
KeyErrorText(k) == "'" \o k \o "'"

\* outcome of a call: a returned value or a raised exception (its str())
Return(v) == [ret |-> v]

Raise(text) == [exc |-> text]

Raised(o) == Has(o, "exc")

\* str() of a Python int
PyInt(n) == ToString(n)

\* str() of a Python float held in tenths (12 is 1.2, 10 is 1.0)
PyFloat(t) ==
  IF t < 0 THEN "-" \o ToString((-t) \div 10) \o "." \o ToString((-t) % 10)
  ELSE ToString(t \div 10) \o "." \o ToString(t % 10)

RECURSIVE PyJoin(_)
PyJoin(s) ==
  IF Len(s) = 0 THEN ""
  ELSE IF Len(s) = 1 THEN PyInt(Head(s))
  ELSE PyInt(Head(s)) \o ", " \o PyJoin(Tail(s))

\* str() of a Python list of ints
PyList(s) == "[" \o PyJoin(s) \o "]"

\* ------------------------------------------------- ExecutionResult
ExecutionResult(success, message, affected_elements) ==
  [success |-> success, message |-> message,
   affected_elements |-> affected_elements]

\* the seven names _execute_single_tool dispatches on
FunctionNames ==
  {"extrude_faces_in_volume", "scale_vertices_in_volume",
   "transform_vertices_in_volume", "apply_material_to_volume",
   "deform_volume_lattice", "subdivide_faces_in_volume",
   "inset_faces_in_volume"}

\* the volume types VolumeSelector.select_vertices_in_volume accepts
VolumeTypes == {"box", "sphere", "cylinder"}

IdentityMatrix4 == <<<<1,0,0,0>>, <<0,1,0,0>>, <<0,0,1,0>>, <<0,0,0,1>>>>

IdentityMatrix3 == <<<<1,0,0>>, <<0,1,0>>, <<0,0,1>>>>

\* ------------------------------------------------- handlers
\* params.get(key, default)
Get(params, key, default) == IF Has(params, key) THEN params[key] ELSE default

\* the two subscripts every handler evaluates, in the handlers' order:
\* volume_id["center_xyz"] first, volume_id["type"] second
VolumeKeyError(volume_id) ==
  IF ~Has(volume_id, "center_xyz") THEN KeyErrorText("center_xyz")
  ELSE IF ~Has(volume_id, "type") THEN KeyErrorText("type")
  ELSE ""

_extrude_faces_in_volume(volume_id, params) ==
  LET extrude_vector == Get(params, "extrude_vector", <<0, 0, 1>>) IN
  IF VolumeKeyError(volume_id) # "" THEN Raise(VolumeKeyError(volume_id))
  ELSE Return(ExecutionResult(TRUE,
         "Extruded faces in " \o volume_id.type \o " volume at "
           \o PyList(volume_id.center_xyz) \o " by vector "
           \o PyList(extrude_vector),
         Some(<<1, 4, 7, 12>>)))

\* variant: scale_factor is subscripted, with no default
_scale_vertices_in_volume_NoDefault(volume_id, params) ==
  IF ~Has(params, "scale_factor") THEN Raise(KeyErrorText("scale_factor"))
  ELSE IF VolumeKeyError(volume_id) # "" THEN Raise(VolumeKeyError(volume_id))
  ELSE Return(ExecutionResult(TRUE,
         "Scaled vertices in " \o volume_id.type \o " volume at "
           \o PyList(volume_id.center_xyz) \o " by factor "
           \o PyFloat(params.scale_factor),
         Some(<<5, 8, 11, 15, 22>>)))

_scale_vertices_in_volume(volume_id, params) ==
  LET scale_factor == Get(params, "scale_factor", 10) IN
  IF VolumeKeyError(volume_id) # "" THEN Raise(VolumeKeyError(volume_id))
  ELSE Return(ExecutionResult(TRUE,
         "Scaled vertices in " \o volume_id.type \o " volume at "
           \o PyList(volume_id.center_xyz) \o " by factor "
           \o PyFloat(scale_factor),
         Some(<<5, 8, 11, 15, 22>>)))

_transform_vertices_in_volume(volume_id, params) ==
  LET transform_matrix == Get(params, "transform_matrix", IdentityMatrix4) IN
  IF VolumeKeyError(volume_id) # "" THEN Raise(VolumeKeyError(volume_id))
  ELSE Return(ExecutionResult(TRUE,
         "Applied transformation to vertices in " \o volume_id.type
           \o " volume at " \o PyList(volume_id.center_xyz),
         Some(<<3, 6, 9, 13, 18, 21>>)))

_apply_material_to_volume(volume_id, params) ==
  LET material_name == Get(params, "material_name", "DefaultMaterial") IN
  IF VolumeKeyError(volume_id) # "" THEN Raise(VolumeKeyError(volume_id))
  ELSE Return(ExecutionResult(TRUE,
         "Applied material '" \o material_name \o "' to " \o volume_id.type
           \o " volume at " \o PyList(volume_id.center_xyz),
         Some(<<2, 5, 8, 14>>)))

_deform_volume_lattice(volume_id, params) ==
  LET deformation_matrix == Get(params, "deformation_matrix", IdentityMatrix3) IN
  IF VolumeKeyError(volume_id) # "" THEN Raise(VolumeKeyError(volume_id))
  ELSE Return(ExecutionResult(TRUE,
         "Applied lattice deformation to " \o volume_id.type
           \o " volume at " \o PyList(volume_id.center_xyz),
         Some(<<1, 4, 7, 10, 16, 19>>)))

_subdivide_faces_in_volume(volume_id, params) ==
  LET subdivision_level == Get(params, "subdivision_level", 1) IN
  IF VolumeKeyError(volume_id) # "" THEN Raise(VolumeKeyError(volume_id))
  ELSE Return(ExecutionResult(TRUE,
         "Subdivided faces in " \o volume_id.type \o " volume at "
           \o PyList(volume_id.center_xyz) \o " (level "
           \o PyInt(subdivision_level) \o ")",
         Some(<<3, 7, 11, 17, 23>>)))

_inset_faces_in_volume(volume_id, params) ==
  LET inset_depth == Get(params, "inset_depth", 1) IN
  IF VolumeKeyError(volume_id) # "" THEN Raise(VolumeKeyError(volume_id))
  ELSE Return(ExecutionResult(TRUE,
         "Inset faces in " \o volume_id.type \o " volume at "
           \o PyList(volume_id.center_xyz) \o " (depth "
           \o PyFloat(inset_depth) \o ")",
         Some(<<2, 6, 12, 18>>)))

\* ------------------------------------------------- dispatcher
_execute_single_tool(function_name, parameters) ==
  IF ~Has(parameters, "volume_identifier")
  THEN Raise(KeyErrorText("volume_identifier"))
  ELSE
    LET volume_id == parameters.volume_identifier IN
    CASE function_name = "extrude_faces_in_volume" ->
           _extrude_faces_in_volume(volume_id, parameters)
      [] function_name = "scale_vertices_in_volume" ->
           _scale_vertices_in_volume(volume_id, parameters)
      [] function_name = "transform_vertices_in_volume" ->
           _transform_vertices_in_volume(volume_id, parameters)
      [] function_name = "apply_material_to_volume" ->
           _apply_material_to_volume(volume_id, parameters)
      [] function_name = "deform_volume_lattice" ->
           _deform_volume_lattice(volume_id, parameters)
      [] function_name = "subdivide_faces_in_volume" ->
           _subdivide_faces_in_volume(volume_id, parameters)
      [] function_name = "inset_faces_in_volume" ->
           _inset_faces_in_volume(volume_id, parameters)
      [] OTHER ->
           Return(ExecutionResult(FALSE,
                    "Unknown function: " \o function_name, None))

\* ------------------------------------------------- schema validation
\* what schema/tool_calls_schema.json demands of a batch: every command has
\* function_name (one of the seven names), parameters.volume_identifier.type
\* (one of the three kinds) and parameters.volume_identifier.center_xyz
CommandConforms(tool_call) ==
  /\ Has(tool_call, "function_name")
  /\ tool_call.function_name \in FunctionNames
  /\ Has(tool_call, "parameters")
  /\ Has(tool_call.parameters, "volume_identifier")
  /\ Has(tool_call.parameters.volume_identifier, "type")
  /\ tool_call.parameters.volume_identifier.type \in VolumeTypes
  /\ Has(tool_call.parameters.volume_identifier, "center_xyz")

SchemaConforms(tool_calls_json) ==
  Has(tool_calls_json, "tool_calls") =>
    \A k \in 1..Len(tool_calls_json.tool_calls) :
       CommandConforms(tool_calls_json.tool_calls[k])

\* self.schema: None when no file exists at schema_path, the loaded schema
\* otherwise
NoSchema == "None"

LoadedSchema == "tool_calls_schema"

\* variant: validation passes whatever the schema says
validate_tool_calls_PassAll(self_schema, tool_calls_json) == TRUE

\* variant: without a schema every batch is rejected
validate_tool_calls_RejectsWithoutSchema(self_schema, tool_calls_json) ==
  IF self_schema = NoSchema THEN FALSE
  ELSE SchemaConforms(tool_calls_json)

validate_tool_calls(self_schema, tool_calls_json) ==
  IF self_schema = NoSchema THEN TRUE
  ELSE SchemaConforms(tool_calls_json)

\* tool_calls_json.get("tool_calls", [])
ToolCallsOf(tool_calls_json) ==
  IF Has(tool_calls_json, "tool_calls") THEN tool_calls_json.tool_calls
  ELSE <<>>

\* variant: the except clause drops the function name from the message
CaughtResult_NoName(function_name, e) ==
  ExecutionResult(FALSE, "Error executing: " \o e, None)

\* the result appended by the except clause of execute_tool_calls
CaughtResult(function_name, e) ==
  ExecutionResult(FALSE, "Error executing " \o function_name \o ": " \o e, None)

\* variant: the aggregate failure carries an empty list of elements
SchemaFailure_EmptyList ==
  ExecutionResult(FALSE, "Schema validation failed", Some(<<>>))

\* the single result returned when validation rejects the batch
SchemaFailure == ExecutionResult(FALSE, "Schema validation failed", None)

\* ------------------------------------------------- report
\* variant: the rate is truncated to one decimal instead of rounded
RateTenths_Truncated(s, t) == (1000 * s) \div t

\* round(1000*s/t) with ties to even: the tenths printed by
\* f"{(s/t)*100:.1f}"
RateTenths(s, t) ==
  LET q == (1000 * s) \div t
      r == (1000 * s) % t
  IN IF 2 * r < t THEN q
     ELSE IF 2 * r > t THEN q + 1
     ELSE IF q % 2 = 0 THEN q ELSE q + 1

ReportLine(i, result) ==
  [number |-> i + 1,
   status |-> IF result.success THEN "SUCCESS" ELSE "FAILED",
   message |-> result.message,
   elements |->
     IF /\ result.affected_elements # None
        /\ Len(result.affected_elements.list) > 0
     THEN " (affected: " \o PyInt(Len(result.affected_elements.list))
            \o " elements)"
     ELSE ""]

generate_execution_report(rs) ==
  LET total_operations == Len(rs)
      successful_operations == Cardinality({k \in 1..Len(rs) : rs[k].success})
      failed_operations == total_operations - successful_operations
  IN IF total_operations = 0 THEN Raise("division by zero")
     ELSE Return([total |-> total_operations,
                  successful |-> successful_operations,
                  failed |-> failed_operations,
                  success_rate |->
                    PyFloat(RateTenths(successful_operations, total_operations))
                      \o "%",
                  details |-> [k \in 1..Len(rs) |-> ReportLine(k - 1, rs[k])]])

\* ------------------------------------------------- volume resolver
Abs(x) == IF x < 0 THEN -x ELSE x

Dot(a, b) == a[1] * b[1] + a[2] * b[2] + a[3] * b[3]

\* A rotation_quaternion_wxyz value <<w, x, y, z>> of integers stands for the
\* unit quaternion (w, x, y, z) / sqrt(QuatNorm2): its rotation matrix is
\* QuatMatrix / QuatNorm2, with integer QuatMatrix.
QuatNorm2(q) == q[1] * q[1] + q[2] * q[2] + q[3] * q[3] + q[4] * q[4]

\* Quaternion(q).to_matrix(), times QuatNorm2(q); column k is QuatMatrix(q)[k]
QuatMatrix(q) ==
  LET w == q[1]
      x == q[2]
      y == q[3]
      z == q[4]
  IN <<<<w*w + x*x - y*y - z*z, 2 * (x*y + w*z), 2 * (x*z - w*y)>>,
       <<2 * (x*y - w*z), w*w - x*x + y*y - z*z, 2 * (y*z + w*x)>>,
       <<2 * (x*z + w*y), 2 * (y*z - w*x), w*w - x*x - y*y + z*z>>>>

\* variant: the rotation of the volume is ignored
ToLocal_NoRotation(volume_id, v) ==
  LET c == volume_id.center_xyz
  IN [scale |-> 1, p |-> <<v[1] - c[1], v[2] - c[2], v[3] - c[3]>>]

\* variant: the translation to the volume's center is left out
ToLocal_NoTranslation(volume_id, v) ==
  IF Has(volume_id, "rotation_quaternion_wxyz")
  THEN LET m == QuatMatrix(volume_id.rotation_quaternion_wxyz)
       IN [scale |-> QuatNorm2(volume_id.rotation_quaternion_wxyz),
           p |-> <<Dot(m[1], v), Dot(m[2], v), Dot(m[3], v)>>]
  ELSE [scale |-> 1, p |-> v]

\* inv_transform @ v with transform_matrix = Translation(center) @ rotation:
\* the inverse rotation (transpose) applied to v - center.  The local point
\* is p / scale.
ToLocal(volume_id, v) ==
  LET c == volume_id.center_xyz
      d == <<v[1] - c[1], v[2] - c[2], v[3] - c[3]>>
  IN IF Has(volume_id, "rotation_quaternion_wxyz")
     THEN LET m == QuatMatrix(volume_id.rotation_quaternion_wxyz)
          IN [scale |-> QuatNorm2(volume_id.rotation_quaternion_wxyz),
              p |-> <<Dot(m[1], d), Dot(m[2], d), Dot(m[3], d)>>]
     ELSE [scale |-> 1, p |-> d]

\* variant: the box test excludes its boundary
InBox_Strict(volume_id, l) ==
  LET dims == volume_id.dimensions_xyz IN
  /\ 2 * Abs(l.p[1]) < dims[1] * l.scale
  /\ 2 * Abs(l.p[2]) < dims[2] * l.scale
  /\ 2 * Abs(l.p[3]) < dims[3] * l.scale

\* abs(v.x) <= dims.x and abs(v.y) <= dims.y and abs(v.z) <= dims.z, with
\* dims = dimensions_xyz / 2
InBox(volume_id, l) ==
  LET dims == volume_id.dimensions_xyz IN
  /\ 2 * Abs(l.p[1]) <= dims[1] * l.scale
  /\ 2 * Abs(l.p[2]) <= dims[2] * l.scale
  /\ 2 * Abs(l.p[3]) <= dims[3] * l.scale

\* variant: the sphere test excludes its boundary
InSphere_Strict(volume_id, l) ==
  /\ volume_id.radius > 0
  /\ Dot(l.p, l.p) < volume_id.radius * volume_id.radius * l.scale * l.scale

\* v.length <= radius
InSphere(volume_id, l) ==
  /\ volume_id.radius >= 0
  /\ Dot(l.p, l.p) <= volume_id.radius * volume_id.radius * l.scale * l.scale

\* variant: dims.x is taken as a diameter, the radius being half of it
InCylinder_HalfRadius(volume_id, l) ==
  LET dims == volume_id.dimensions_xyz IN
  /\ 4 * (l.p[1] * l.p[1] + l.p[2] * l.p[2])
       <= dims[1] * dims[1] * l.scale * l.scale
  /\ 2 * Abs(l.p[3]) <= dims[3] * l.scale

\* xy_dist <= radius and abs(v.z) <= height, radius = dims.x, height = dims.z/2
InCylinder(volume_id, l) ==
  LET dims == volume_id.dimensions_xyz IN
  /\ dims[1] >= 0
  /\ l.p[1] * l.p[1] + l.p[2] * l.p[2] <= dims[1] * dims[1] * l.scale * l.scale
  /\ 2 * Abs(l.p[3]) <= dims[3] * l.scale

\* variant: the indices are counted from 1
SelectIndices_OneBased(inside) ==
  SelectSeq([k \in 1..Len(inside) |-> k], LAMBDA k : inside[k])

\* the 0-based indices of the elements whose test succeeded, in enumeration
\* order; inside[k + 1] is the test's outcome for element k
SelectIndices(inside) ==
  SelectSeq([k \in 1..Len(inside) |-> k - 1], LAMBDA k : inside[k + 1])

select_vertices_in_volume(obj, volume_id) ==
  IF obj.type # "MESH" THEN Raise("Object must be a mesh")
  ELSE IF ~Has(volume_id, "type") THEN Raise(KeyErrorText("type"))
  ELSE IF ~Has(volume_id, "center_xyz") THEN Raise(KeyErrorText("center_xyz"))
  ELSE IF volume_id.type = "box"
  THEN IF ~Has(volume_id, "dimensions_xyz")
       THEN Raise(KeyErrorText("dimensions_xyz"))
       ELSE Return(SelectIndices(
                [k \in 1..Len(obj.vertices) |->
                   InBox(volume_id, ToLocal(volume_id, obj.vertices[k]))]))
  ELSE IF volume_id.type = "sphere"
  THEN IF ~Has(volume_id, "radius") THEN Raise(KeyErrorText("radius"))
       ELSE Return(SelectIndices(
                [k \in 1..Len(obj.vertices) |->
                   InSphere(volume_id, ToLocal(volume_id, obj.vertices[k]))]))
  ELSE IF volume_id.type = "cylinder"
  THEN IF ~Has(volume_id, "dimensions_xyz")
       THEN Raise(KeyErrorText("dimensions_xyz"))
       ELSE Return(SelectIndices(
                [k \in 1..Len(obj.vertices) |->
                   InCylinder(volume_id, ToLocal(volume_id, obj.vertices[k]))]))
  ELSE Raise("Unsupported volume type: " \o volume_id.type)

\* the exception the first iteration of the face loop raises, "" when none
FaceLoopKeyError(volume_id) ==
  IF ~Has(volume_id, "center_xyz") THEN KeyErrorText("center_xyz")
  ELSE IF ~Has(volume_id, "type") THEN KeyErrorText("type")
  ELSE IF volume_id.type \in {"box", "cylinder"}
          /\ ~Has(volume_id, "dimensions_xyz")
  THEN KeyErrorText("dimensions_xyz")
  ELSE IF volume_id.type = "sphere" /\ ~Has(volume_id, "radius")
  THEN KeyErrorText("radius")
  ELSE ""

\* in_volume of one face center
FaceInVolume(volume_id, face_center) ==
  LET local_center == ToLocal(volume_id, face_center) IN
  CASE volume_id.type = "box" -> InBox(volume_id, local_center)
    [] volume_id.type = "sphere" -> InSphere(volume_id, local_center)
    [] volume_id.type = "cylinder" -> InCylinder(volume_id, local_center)
    [] OTHER -> FALSE

\* variant: the face site does not check that the object is a mesh
select_faces_in_volume_NoMeshCheck(obj, volume_id) ==
  IF Len(obj.face_centers) = 0 THEN Return(<<>>)
  ELSE IF FaceLoopKeyError(volume_id) # ""
  THEN Raise(FaceLoopKeyError(volume_id))
  ELSE Return(SelectIndices(
         [k \in 1..Len(obj.face_centers) |->
            FaceInVolume(volume_id, obj.face_centers[k])]))

select_faces_in_volume(obj, volume_id) ==
  IF obj.type # "MESH" THEN Raise("Object must be a mesh")
  ELSE IF Len(obj.face_centers) = 0 THEN Return(<<>>)
  ELSE IF FaceLoopKeyError(volume_id) # ""
  THEN Raise(FaceLoopKeyError(volume_id))
  ELSE Return(SelectIndices(
         [k \in 1..Len(obj.face_centers) |->
            FaceInVolume(volume_id, obj.face_centers[k])]))

\* ------------------------------------------------- inputs
\* volume_identifier dicts that are submitted: supported kinds at two
\* centers, an unsupported kind, and ones lacking center_xyz or type
BoxAtOrigin ==
  [type |-> "box", center_xyz |-> <<0, 0, 0>>, dimensions_xyz |-> <<2, 2, 2>>]

BoxAway ==
  [type |-> "box", center_xyz |-> <<4, 0, 0>>, dimensions_xyz |-> <<2, 2, 2>>]

Volumes ==
  {BoxAtOrigin, BoxAway,
   [type |-> "sphere", center_xyz |-> <<0, 0, 0>>, radius |-> 1],
   [type |-> "cylinder", center_xyz |-> <<0, 0, 0>>,
    dimensions_xyz |-> <<1, 1, 2>>],
   [type |-> "box", center_xyz |-> <<0, 0, 0>>, dimensions_xyz |-> <<2, 2, 2>>,
    rotation_quaternion_wxyz |-> <<1, 0, 0, 1>>],
   [type |-> "cone", center_xyz |-> <<0, 0, 0>>, radius |-> 1],
   [type |-> "box", dimensions_xyz |-> <<2, 2, 2>>],
   [center_xyz |-> <<0, 0, 0>>]}

\* the mesh object of the scene: world positions of its vertices
\* (obj.matrix_world @ v.co) and of its face centers
SceneObject ==
  [type |-> "MESH",
   vertices |-> <<<<0, 0, 0>>, <<1, 1, 1>>, <<4, 0, 0>>, <<0, 0, 3>>>>,
   face_centers |-> <<<<0, 0, 0>>, <<4, 0, 1>>, <<1, 0, 0>>>>]

\* the operation-specific key of each operation, with a non-default value
OperationParam(function_name) ==
  CASE function_name = "extrude_faces_in_volume" ->
         [extrude_vector |-> <<0, 0, 2>>]
    [] function_name = "scale_vertices_in_volume" -> [scale_factor |-> 12]
    [] function_name = "transform_vertices_in_volume" ->
         [transform_matrix |->
            <<<<2,0,0,0>>, <<0,1,0,0>>, <<0,0,1,0>>, <<0,0,0,1>>>>]
    [] function_name = "apply_material_to_volume" ->
         [material_name |-> "Armored_Steel_Plate"]
    [] function_name = "deform_volume_lattice" ->
         [deformation_matrix |-> <<<<2,0,0>>, <<0,1,0>>, <<0,0,1>>>>]
    [] function_name = "subdivide_faces_in_volume" -> [subdivision_level |-> 2]
    [] function_name = "inset_faces_in_volume" -> [inset_depth |-> 5]
    [] OTHER -> EmptyDict

\* the operation-specific key of each operation, with the value its handler
\* falls back on when the key is absent
DefaultParam(function_name) ==
  CASE function_name = "extrude_faces_in_volume" ->
         [extrude_vector |-> <<0, 0, 1>>]
    [] function_name = "scale_vertices_in_volume" -> [scale_factor |-> 10]
    [] function_name = "transform_vertices_in_volume" ->
         [transform_matrix |-> IdentityMatrix4]
    [] function_name = "apply_material_to_volume" ->
         [material_name |-> "DefaultMaterial"]
    [] function_name = "deform_volume_lattice" ->
         [deformation_matrix |-> IdentityMatrix3]
    [] function_name = "subdivide_faces_in_volume" -> [subdivision_level |-> 1]
    [] function_name = "inset_faces_in_volume" -> [inset_depth |-> 1]
    [] OTHER -> EmptyDict

UnknownName == "rotate_volume"

Commands ==
     {[function_name |-> f, parameters |-> [volume_identifier |-> BoxAtOrigin]]
        : f \in FunctionNames}
  \cup
     {[function_name |-> f,
       parameters |-> [volume_identifier |-> BoxAtOrigin] @@ OperationParam(f)]
        : f \in FunctionNames}
  \cup
     {[function_name |-> f,
       parameters |-> [volume_identifier |-> BoxAtOrigin] @@ DefaultParam(f)]
        : f \in FunctionNames}
  \cup
     {[function_name |-> "extrude_faces_in_volume",
       parameters |-> [volume_identifier |-> v]] : v \in Volumes}
  \cup
     {[function_name |-> UnknownName, parameters |-> q]
        : q \in {[volume_identifier |-> BoxAtOrigin], EmptyDict,
                 [volume_identifier |-> [type |-> "box"]]}}
  \cup
     {[function_name |-> "scale_vertices_in_volume", parameters |-> EmptyDict],
      [function_name |-> "extrude_faces_in_volume"],
      [parameters |-> [volume_identifier |-> BoxAtOrigin]]}

RECURSIVE SeqsUpTo(_, _)
SeqsUpTo(S, n) ==
  IF n = 0 THEN {<<>>}
  ELSE LET shorter == SeqsUpTo(S, n - 1)
       IN shorter \cup {Append(q, x) : q \in shorter, x \in S}

\* the dicts handed to execute_tool_calls: a tool_calls list, or no key
Batches ==
  {[tool_calls |-> q] : q \in SeqsUpTo(Commands, MaxBatch)} \cup {EmptyDict}

\* results handed directly to generate_execution_report (non-empty lists:
\* the empty list is reported on after a batch of zero commands)
SampleResults ==
  {ExecutionResult(TRUE, "ok", Some(<<1, 4>>)),
   ExecutionResult(TRUE, "ok", Some(<<>>)),
   ExecutionResult(FALSE, "bad", None)}

ResultLists == SeqsUpTo(SampleResults, MaxResults) \ {<<>>}

\* ------------------------------------------------- state
VARIABLES
  schema,          \* self.schema
  tool_calls_json, \* argument of the current execute_tool_calls call
  pc,              \* "idle", "loop", "returned", "reported", "raised"
  i,               \* loop index of execute_tool_calls (0-based)
  results,         \* the local list results
  dispatched,      \* indices for which _execute_single_tool was called
  fault,           \* exception that left the call, "" when none
  report_input,    \* argument of the last generate_execution_report call
  report,          \* its return value, EmptyDict before the first report
  sel_site,        \* resolver call made: "none", "vertices" or "faces"
  sel_obj,         \* its argument obj
  sel_volume,      \* its argument volume_id
  sel_out          \* its outcome: the returned list or the raised exception

exec_vars ==
  <<schema, tool_calls_json, pc, i, results, dispatched, fault,
    report_input, report>>

sel_vars == <<sel_site, sel_obj, sel_volume, sel_out>>

vars ==
  <<schema, tool_calls_json, pc, i, results, dispatched, fault,
    report_input, report, sel_site, sel_obj, sel_volume, sel_out>>

\* ToolExecutor.__init__: the schema file exists or it does not
Init ==
  /\ schema \in {NoSchema, LoadedSchema}
  /\ tool_calls_json = EmptyDict
  /\ pc = "idle"
  /\ i = 0
  /\ results = <<>>
  /\ dispatched = <<>>
  /\ fault = ""
  /\ report_input = <<>>
  /\ report = EmptyDict
  /\ sel_site = "none"
  /\ sel_obj = EmptyDict
  /\ sel_volume = EmptyDict
  /\ sel_out = EmptyDict

Callable == pc = "idle"

\* variant: a rejected batch is dispatched all the same
ExecuteRejected_Dispatches ==
  /\ UNCHANGED sel_vars
  /\ Callable
  /\ \E b \in Batches :
       /\ ~validate_tool_calls(schema, b)
       /\ tool_calls_json' = b
       /\ results' = <<>>
       /\ pc' = "loop"
       /\ i' = 0
       /\ dispatched' = <<>>
       /\ fault' = ""
  /\ UNCHANGED <<schema, report_input, report>>

\* execute_tool_calls, validation fails: return the aggregate failure
ExecuteRejected ==
  /\ UNCHANGED sel_vars
  /\ Callable
  /\ \E b \in Batches :
       /\ ~validate_tool_calls(schema, b)
       /\ tool_calls_json' = b
       /\ results' = <<SchemaFailure>>
       /\ pc' = "returned"
       /\ i' = 0
       /\ dispatched' = <<>>
       /\ fault' = ""
  /\ UNCHANGED <<schema, report_input, report>>

\* execute_tool_calls, validation passes: enter the loop
ExecuteBegin ==
  /\ UNCHANGED sel_vars
  /\ Callable
  /\ \E b \in Batches :
       /\ validate_tool_calls(schema, b)
       /\ tool_calls_json' = b
       /\ results' = <<>>
       /\ pc' = "loop"
       /\ i' = 0
       /\ dispatched' = <<>>
       /\ fault' = ""
  /\ UNCHANGED <<schema, report_input, report>>

\* variant: the message of a caught exception carries the loop index
LoopBody_PositionDependent ==
  /\ UNCHANGED sel_vars
  /\ pc = "loop"
  /\ i < Len(ToolCallsOf(tool_calls_json))
  /\ LET tool_call == ToolCallsOf(tool_calls_json)[i + 1] IN
     IF ~Has(tool_call, "function_name")
     THEN /\ fault' = "KeyError: " \o KeyErrorText("function_name")
          /\ pc' = "raised"
          /\ UNCHANGED <<i, results, dispatched>>
     ELSE IF ~Has(tool_call, "parameters")
     THEN /\ fault' = "KeyError: " \o KeyErrorText("parameters")
          /\ pc' = "raised"
          /\ UNCHANGED <<i, results, dispatched>>
     ELSE LET o == _execute_single_tool(tool_call.function_name,
                                        tool_call.parameters)
          IN /\ results' =
                  Append(results,
                         IF Raised(o)
                         THEN CaughtResult(
                                tool_call.function_name \o "#" \o PyInt(i),
                                o.exc)
                         ELSE o.ret)
             /\ dispatched' = Append(dispatched, i)
             /\ i' = i + 1
             /\ UNCHANGED <<pc, fault>>
  /\ UNCHANGED <<schema, tool_calls_json, report_input, report>>

\* one iteration of the for loop of execute_tool_calls
LoopBody ==
  /\ UNCHANGED sel_vars
  /\ pc = "loop"
  /\ i < Len(ToolCallsOf(tool_calls_json))
  /\ LET tool_call == ToolCallsOf(tool_calls_json)[i + 1] IN
     IF ~Has(tool_call, "function_name")
     THEN /\ fault' = "KeyError: " \o KeyErrorText("function_name")
          /\ pc' = "raised"
          /\ UNCHANGED <<i, results, dispatched>>
     ELSE IF ~Has(tool_call, "parameters")
     THEN /\ fault' = "KeyError: " \o KeyErrorText("parameters")
          /\ pc' = "raised"
          /\ UNCHANGED <<i, results, dispatched>>
     ELSE LET o == _execute_single_tool(tool_call.function_name,
                                        tool_call.parameters)
          IN /\ results' =
                  Append(results,
                         IF Raised(o)
                         THEN CaughtResult(tool_call.function_name, o.exc)
                         ELSE o.ret)
             /\ dispatched' = Append(dispatched, i)
             /\ i' = i + 1
             /\ UNCHANGED <<pc, fault>>
  /\ UNCHANGED <<schema, tool_calls_json, report_input, report>>

\* the loop is exhausted: return results
LoopEnd ==
  /\ UNCHANGED sel_vars
  /\ pc = "loop"
  /\ i >= Len(ToolCallsOf(tool_calls_json))
  /\ pc' = "returned"
  /\ UNCHANGED <<schema, tool_calls_json, i, results, dispatched, fault,
                 report_input, report>>

\* generate_execution_report on the list rs
ReportOn(rs) ==
  LET o == generate_execution_report(rs) IN
  /\ report_input' = rs
  /\ IF Raised(o)
     THEN /\ fault' = "ZeroDivisionError: " \o o.exc
          /\ pc' = "raised"
          /\ report' = EmptyDict
     ELSE /\ fault' = ""
          /\ pc' = "reported"
          /\ report' = o.ret

\* the caller reports on the results execute_tool_calls returned
GenerateReport ==
  /\ UNCHANGED sel_vars
  /\ pc = "returned"
  /\ ReportOn(results)
  /\ UNCHANGED <<schema, tool_calls_json, i, results, dispatched>>

\* the caller reports on a list of results it has collected itself
GenerateReportOnList ==
  /\ UNCHANGED sel_vars
  /\ pc = "idle"
  /\ \E rs \in ResultLists : ReportOn(rs)
  /\ UNCHANGED <<schema, tool_calls_json, i, results, dispatched>>

\* the call is over (returned, reported or raised): the caller drops its
\* locals; the executor keeps nothing but self.schema
Finish ==
  /\ UNCHANGED sel_vars
  /\ pc \in {"returned", "reported", "raised"}
  /\ pc' = "idle"
  /\ tool_calls_json' = EmptyDict
  /\ i' = 0
  /\ results' = <<>>
  /\ dispatched' = <<>>
  /\ fault' = ""
  /\ report_input' = <<>>
  /\ report' = EmptyDict
  /\ UNCHANGED schema

Next ==
  \/ ExecuteRejected
  \/ ExecuteBegin
  \/ LoopBody
  \/ LoopEnd
  \/ GenerateReport
  \/ GenerateReportOnList
  \/ Finish

Spec == Init /\ [][Next]_vars

\* ------------------------------------------------- resolver calls
\* the grid of world positions, enumerated row by row
GridWidth == 2 * MaxCoord + 1

GridSize == GridWidth * GridWidth * GridWidth

GridPoint(k) ==
  <<((k - 1) \div (GridWidth * GridWidth)) - MaxCoord,
    (((k - 1) \div GridWidth) % GridWidth) - MaxCoord,
    ((k - 1) % GridWidth) - MaxCoord>>

\* a mesh with a vertex on every grid point and a face center on every grid
\* point, the faces enumerated in the opposite order
GridMesh ==
  [type |-> "MESH",
   vertices |-> [k \in 1..GridSize |-> GridPoint(k)],
   face_centers |-> [k \in 1..GridSize |-> GridPoint(GridSize + 1 - k)]]

\* objects handed to the resolver: meshes with and without elements, one with
\* two vertices on the same position, and objects that are not meshes
Objects ==
  {GridMesh, SceneObject,
   [type |-> "MESH", vertices |-> <<>>, face_centers |-> <<>>],
   [type |-> "MESH", vertices |-> <<<<1, 0, -1>>, <<1, 0, -1>>>>,
    face_centers |-> <<>>],
   [type |-> "CAMERA", vertices |-> <<>>, face_centers |-> <<>>],
   [type |-> "CURVE", vertices |-> <<>>, face_centers |-> <<>>]}

Centers == {<<0, 0, 0>>, <<1, 0, -1>>}

\* identity, 90 degrees about Z, 90 degrees about X
Rotations == {<<1, 0, 0, 0>>, <<1, 0, 0, 1>>, <<1, 1, 0, 0>>}

DimTriples == {<<a, b, c>> : a, b, c \in 0..MaxDim}

\* v without rotation and with each rotation
WithRotation(v) ==
  {v} \cup {v @@ [rotation_quaternion_wxyz |-> q] : q \in Rotations}

\* volume_identifier dicts handed to the resolver
SelVolumes ==
  UNION {WithRotation(v) : v \in
       {[type |-> "box", center_xyz |-> c, dimensions_xyz |-> d]
          : c \in Centers, d \in DimTriples}
    \cup
       {[type |-> "sphere", center_xyz |-> c, radius |-> r]
          : c \in Centers, r \in 0..MaxDim}
    \cup
       {[type |-> "cylinder", center_xyz |-> c, dimensions_xyz |-> d]
          : c \in Centers, d \in DimTriples}
    \cup
       {[type |-> "cylinder", center_xyz |-> c, dimensions_xyz |-> d,
         radius |-> 2] : c \in Centers, d \in DimTriples}
    \cup
       {[type |-> "cone", center_xyz |-> c, radius |-> 1] : c \in Centers}
    \cup
       {[type |-> "box", center_xyz |-> <<0, 0, 0>>],
        [type |-> "sphere", center_xyz |-> <<0, 0, 0>>],
        [type |-> "box", dimensions_xyz |-> <<2, 2, 2>>],
        [type |-> "cone", dimensions_xyz |-> <<2, 2, 2>>],
        [center_xyz |-> <<0, 0, 0>>, radius |-> 1]}}

\* VolumeSelector.select_vertices_in_volume(obj, volume_id)
SelectVertices ==
  /\ sel_site = "none"
  /\ \E obj \in Objects, volume_id \in SelVolumes :
       /\ sel_site' = "vertices"
       /\ sel_obj' = obj
       /\ sel_volume' = volume_id
       /\ sel_out' = select_vertices_in_volume(obj, volume_id)
  /\ UNCHANGED exec_vars

\* VolumeSelector.select_faces_in_volume(obj, volume_id)
SelectFaces ==
  /\ sel_site = "none"
  /\ \E obj \in Objects, volume_id \in SelVolumes :
       /\ sel_site' = "faces"
       /\ sel_obj' = obj
       /\ sel_volume' = volume_id
       /\ sel_out' = select_faces_in_volume(obj, volume_id)
  /\ UNCHANGED exec_vars

\* the caller has used the outcome; the selector keeps nothing of the call
SelectDone ==
  /\ sel_site # "none"
  /\ sel_site' = "none"
  /\ sel_obj' = EmptyDict
  /\ sel_volume' = EmptyDict
  /\ sel_out' = EmptyDict
  /\ UNCHANGED exec_vars

SelInit == Init /\ schema = NoSchema

SelNext == SelectVertices \/ SelectFaces \/ SelectDone

\* the resolver on its own: every call of either site on the bounded inputs
SelSpec == SelInit /\ [][SelNext]_vars

\* ------------------------------------------------- properties
\* the commands of the current call and the command behind result k
ToolCalls == ToolCallsOf(tool_calls_json)

Validated == validate_tool_calls(schema, tool_calls_json)

DispatchedCommand(k) == ToolCalls[dispatched[k] + 1]

\* the exception left execute_tool_calls itself
ExecuteRaised ==
  /\ pc = "raised"
  /\ fault \in {"KeyError: 'function_name'", "KeyError: 'parameters'"}

\* the call has ended, one way or the other
CallEnded == pc \in {"returned", "reported", "raised"}

HasVolume(tool_call) == Has(tool_call.parameters, "volume_identifier")

\* C1: every dispatched command whose function_name is none of the seven
\* names gets the result (False, "Unknown function: <name>", None), whatever
\* its parameters hold.
C1_UnknownFunctionResult ==
  \A k \in 1..Len(dispatched) :
     DispatchedCommand(k).function_name \notin FunctionNames =>
       /\ k <= Len(results)
       /\ results[k] =
            [success |-> FALSE,
             message |-> "Unknown function: "
                           \o DispatchedCommand(k).function_name,
             affected_elements |-> None]

\* number of results with success = True
RECURSIVE CountSuccess(_)
CountSuccess(rs) ==
  IF Len(rs) = 0 THEN 0
  ELSE (IF Head(rs).success THEN 1 ELSE 0) + CountSuccess(Tail(rs))

\* C2: a validated batch of n commands ends with exactly n results, result k
\* belonging to command k, and a failed result never stops a later command
\* from being dispatched.
C2_OneResultPerCommand ==
  (Validated /\ CallEnded) =>
     /\ ~ExecuteRaised
     /\ Len(results) = Len(ToolCalls)
     /\ dispatched = [k \in 1..Len(ToolCalls) |-> k - 1]

\* a defect scoped to one command: a missing volume_identifier, type or
\* center_xyz
Defective(tool_call) ==
  \/ ~HasVolume(tool_call)
  \/ ~Has(tool_call.parameters.volume_identifier, "type")
  \/ ~Has(tool_call.parameters.volume_identifier, "center_xyz")

\* C3: for a batch that passed validation no fault leaves
\* execute_tool_calls; every defect of one command becomes a failed result
\* of that command.
C3_DefectsReportedLocally ==
  Validated =>
     /\ ~ExecuteRaised
     /\ \A k \in 1..Len(dispatched) :
          Defective(DispatchedCommand(k)) => ~results[k].success

\* C4: a batch validate_tool_calls rejects is never dispatched: no handler
\* runs and the only result is the aggregate (False, "Schema validation
\* failed", None), whatever the number of commands.
C4_RejectedBatchAggregate ==
  ~Validated =>
     /\ pc \in {"returned", "reported"}
     /\ dispatched = <<>>
     /\ results = <<[success |-> FALSE,
                     message |-> "Schema validation failed",
                     affected_elements |-> None]>>

C4_Witness ==
  /\ pc = "returned"
  /\ ~Validated
  /\ Len(ToolCalls) >= 2
  /\ CommandConforms(ToolCalls[1])
  /\ results = <<SchemaFailure>>
  /\ dispatched = <<>>

\* some command of the batch has a volume_identifier without center_xyz
LacksCenter(tool_call) ==
  /\ Has(tool_call, "function_name")
  /\ Has(tool_call, "parameters")
  /\ HasVolume(tool_call)
  /\ ~Has(tool_call.parameters.volume_identifier, "center_xyz")

BatchLacksCenter == \E k \in 1..Len(ToolCalls) : LacksCenter(ToolCalls[k])

\* C5 as stated: a batch in which a volume_identifier lacks center_xyz fails
\* validation: nothing is dispatched and the outcome is the aggregate
\* failure.
C5_MissingCenterFailsValidation ==
  BatchLacksCenter =>
     /\ dispatched = <<>>
     /\ pc # "loop"
     /\ results = <<SchemaFailure>>

\* C5 amended: with a schema loaded such a batch fails validation (nothing
\* dispatched, aggregate failure only); with no schema loaded it is
\* dispatched and a command with one of the seven names that lacks
\* center_xyz gets the handler's failure "Error executing <name>:
\* 'center_xyz'".
C5_MissingCenterBySchemaMode ==
  BatchLacksCenter =>
     IF schema = LoadedSchema
     THEN /\ dispatched = <<>>
          /\ pc # "loop"
          /\ results = <<SchemaFailure>>
     ELSE /\ results # <<SchemaFailure>>
          /\ \A k \in 1..Len(dispatched) :
               (LacksCenter(DispatchedCommand(k))
                  /\ DispatchedCommand(k).function_name \in FunctionNames)
                 => results[k] =
                      [success |-> FALSE,
                       message |-> "Error executing "
                                     \o DispatchedCommand(k).function_name
                                     \o ": 'center_xyz'",
                       affected_elements |-> None]

C5_Witness ==
  /\ schema = LoadedSchema
  /\ pc = "returned"
  /\ Len(ToolCalls) = 2
  /\ CommandConforms(ToolCalls[1])
  /\ LacksCenter(ToolCalls[2])
  /\ results = <<SchemaFailure>>

\* the handler of a dispatched command raises: one of the seven names and a
\* volume_identifier lacking center_xyz or type
HandlerRaises(tool_call) ==
  /\ tool_call.function_name \in FunctionNames
  /\ HasVolume(tool_call)
  /\ \/ ~Has(tool_call.parameters.volume_identifier, "center_xyz")
     \/ ~Has(tool_call.parameters.volume_identifier, "type")

\* C6: an exception raised by a handler is caught: the command's result is
\* (False, "Error executing <function_name>: <exception text>", None) and
\* the loop goes on to the next command.
C6_HandlerExceptionCaught ==
  \A k \in 1..Len(dispatched) :
     HandlerRaises(DispatchedCommand(k)) =>
       /\ results[k] =
            [success |-> FALSE,
             message |->
               "Error executing " \o DispatchedCommand(k).function_name
                 \o ": "
                 \o (IF Has(DispatchedCommand(k).parameters.volume_identifier,
                            "center_xyz")
                     THEN "'type'" ELSE "'center_xyz'"),
             affected_elements |-> None]
       /\ i >= k
       /\ pc \in {"loop", "returned", "reported", "raised"}
       /\ (pc \in {"returned", "reported"} => Len(results) = Len(ToolCalls))

C6_Witness ==
  /\ pc = "returned"
  /\ Len(dispatched) = 2
  /\ HandlerRaises(DispatchedCommand(1))
  /\ ~results[1].success
  /\ results[2].success

\* every command of the batch is a dict with function_name and parameters
WellShaped ==
  \A k \in 1..Len(ToolCalls) :
     Has(ToolCalls[k], "function_name") /\ Has(ToolCalls[k], "parameters")

\* C7: for every batch, a batch of zero commands included, execute_tool_calls
\* followed by generate_execution_report raises nothing and yields the
\* aggregate failure or a report with one line per command.
C7_ExecuteThenReportCompletes ==
  WellShaped =>
     /\ fault = ""
     /\ (pc = "reported" /\ report_input = results /\ Validated)
          => Len(report.details) = Len(ToolCalls)

\* the batch [unknown operation, valid operation]
UnknownThenValid ==
  /\ Len(ToolCalls) = 2
  /\ Has(ToolCalls[1], "function_name")
  /\ Has(ToolCalls[1], "parameters")
  /\ ToolCalls[1].function_name \notin FunctionNames
  /\ CommandConforms(ToolCalls[2])

\* the counts and the rate of a report agree with its input
ReportCounts ==
  pc = "reported" =>
     /\ report.total = Len(report_input)
     /\ report.successful = CountSuccess(report_input)
     /\ report.failed = report.total - report.successful
     /\ \E t \in 0..1000 :
          /\ report.success_rate = PyFloat(t) \o "%"
          /\ 2 * Abs(t * report.total - 1000 * report.successful)
               <= report.total

UnknownThenValidReport ==
  /\ report.total = 2
  /\ report.successful = 1
  /\ report.failed = 1
  /\ report.success_rate = "50.0%"
  /\ report.details[1].status = "FAILED"
  /\ report.details[2].status = "SUCCESS"

\* C8 as stated: the report of a non-empty result list gives the total, the
\* successes, failed = total - successes and the rate 100*successes/total to
\* one decimal; the batch [unknown, valid] is reported as 2 / 1 / 1 / 50.0%,
\* the failed result first.
C8_ReportCountsAndExample ==
  /\ ReportCounts
  /\ (pc = "reported" /\ report_input = results /\ UnknownThenValid)
       => UnknownThenValidReport

\* C8 amended: the counts and the rate as stated; the batch [unknown, valid]
\* is reported as 2 / 1 / 1 / 50.0% when no schema is loaded, and as
\* 1 / 0 / 1 / 0.0% (the aggregate failure) when a schema is loaded, which
\* rejects the unknown name.
C8_ReportCountsBySchemaMode ==
  /\ ReportCounts
  /\ (pc = "reported" /\ report_input = results /\ UnknownThenValid)
       => IF schema = NoSchema
          THEN UnknownThenValidReport
          ELSE /\ report.total = 1
               /\ report.successful = 0
               /\ report.failed = 1
               /\ report.success_rate = "0.0%"

C8_Witness ==
  /\ pc = "reported"
  /\ schema = NoSchema
  /\ report_input = results
  /\ UnknownThenValid
  /\ report.total = 2
  /\ report.success_rate = "50.0%"

FaceOperations ==
  {"extrude_faces_in_volume", "apply_material_to_volume",
   "subdivide_faces_in_volume", "inset_faces_in_volume"}

\* what the Volume Resolver selects for a command over the scene's mesh
ResolverSelection(tool_call) ==
  IF tool_call.function_name \in FaceOperations
  THEN select_faces_in_volume(SceneObject,
                              tool_call.parameters.volume_identifier)
  ELSE select_vertices_in_volume(SceneObject,
                                 tool_call.parameters.volume_identifier)

\* C9: the affected_elements of every successful command are the resolver's
\* selection for its volume, faces or vertices according to the operation,
\* and two commands of one operation whose volumes enclose different elements
\* report different affected_elements.
C9_AffectedIsResolverSelection ==
  /\ \A k \in 1..Len(dispatched) :
       (results[k].success
          /\ ~Raised(ResolverSelection(DispatchedCommand(k))))
         => results[k].affected_elements =
              [list |-> ResolverSelection(DispatchedCommand(k)).ret]
  /\ \A j, k \in 1..Len(dispatched) :
       (/\ results[j].success
        /\ results[k].success
        /\ DispatchedCommand(j).function_name
             = DispatchedCommand(k).function_name
        /\ ~Raised(ResolverSelection(DispatchedCommand(j)))
        /\ ~Raised(ResolverSelection(DispatchedCommand(k)))
        /\ ResolverSelection(DispatchedCommand(j))
             # ResolverSelection(DispatchedCommand(k)))
         => results[j].affected_elements # results[k].affected_elements

\* C10: a dispatched command whose volume type is not box, sphere or
\* cylinder gets a failed result without affected elements.
C10_UnsupportedVolumeTypeFails ==
  \A k \in 1..Len(dispatched) :
     (/\ HasVolume(DispatchedCommand(k))
      /\ Has(DispatchedCommand(k).parameters.volume_identifier, "type")
      /\ DispatchedCommand(k).parameters.volume_identifier.type
           \notin VolumeTypes)
       => /\ ~results[k].success
          /\ results[k].affected_elements = None

\* ------------------------------------------------- resolver properties
SelCalled == sel_site # "none"

\* the elements the called site enumerates: vertices or face centers
SelElements ==
  IF sel_site = "vertices" THEN sel_obj.vertices ELSE sel_obj.face_centers

\* the call returned a list and element k (0-based) is in it
SelPicked(k) ==
  \E j \in 1..Len(sel_out.ret) : sel_out.ret[j] = k

\* a call on a mesh with a volume of the given type that carries the keys
\* the type needs
SelOn(type, shape_key) ==
  /\ SelCalled
  /\ sel_obj.type = "MESH"
  /\ Has(sel_volume, "type")
  /\ sel_volume.type = type
  /\ Has(sel_volume, "center_xyz")
  /\ Has(sel_volume, shape_key)

RotationGiven == Has(sel_volume, "rotation_quaternion_wxyz")

IdentityOrAbsent ==
  RotationGiven => sel_volume.rotation_quaternion_wxyz = <<1, 0, 0, 0>>

\* element position minus the volume's center, in world axes
Offset(k) ==
  <<SelElements[k][1] - sel_volume.center_xyz[1],
    SelElements[k][2] - sel_volume.center_xyz[2],
    SelElements[k][3] - sel_volume.center_xyz[3]>>

\* C11: for a volume whose type is not box, sphere or cylinder both call
\* sites fail with an error, on every mesh; no selection is returned.
C11_UnsupportedTypeIsError ==
  (/\ SelCalled
   /\ sel_obj.type = "MESH"
   /\ Has(sel_volume, "type")
   /\ Has(sel_volume, "center_xyz")
   /\ sel_volume.type \notin VolumeTypes)
    => Raised(sel_out)

\* C12: for a box with identity or absent rotation, element k is selected
\* iff |x-cx| <= dx/2, |y-cy| <= dy/2 and |z-cz| <= dz/2, boundary included,
\* at both call sites; a box of zero dimensions selects exactly the elements
\* on its center.
C12_BoxContainment ==
  (SelOn("box", "dimensions_xyz") /\ IdentityOrAbsent) =>
     /\ ~Raised(sel_out)
     /\ \A k \in 1..Len(SelElements) :
          SelPicked(k - 1) <=>
            /\ 2 * Abs(Offset(k)[1]) <= sel_volume.dimensions_xyz[1]
            /\ 2 * Abs(Offset(k)[2]) <= sel_volume.dimensions_xyz[2]
            /\ 2 * Abs(Offset(k)[3]) <= sel_volume.dimensions_xyz[3]
     /\ sel_volume.dimensions_xyz = <<0, 0, 0>> =>
          \A k \in 1..Len(SelElements) :
             SelPicked(k - 1) <=> SelElements[k] = sel_volume.center_xyz

C12_Witness ==
  /\ SelOn("box", "dimensions_xyz")
  /\ IdentityOrAbsent
  /\ sel_site = "faces"
  /\ sel_volume.center_xyz = <<1, 0, -1>>
  /\ sel_volume.dimensions_xyz = <<2, 1, 0>>
  /\ ~Raised(sel_out)
  /\ \E k \in 1..Len(SelElements) :
       SelPicked(k - 1) /\ Abs(Offset(k)[1]) = 1
  /\ \E k \in 1..Len(SelElements) : ~SelPicked(k - 1)

\* C13: for a sphere, element k is selected iff its distance to the center is
\* <= radius, boundary included, whatever rotation is given, at both call
\* sites.
C13_SphereContainment ==
  SelOn("sphere", "radius") =>
     /\ ~Raised(sel_out)
     /\ \A k \in 1..Len(SelElements) :
          SelPicked(k - 1) <=>
            /\ sel_volume.radius >= 0
            /\ Dot(Offset(k), Offset(k))
                 <= sel_volume.radius * sel_volume.radius

C13_Witness ==
  /\ SelOn("sphere", "radius")
  /\ sel_site = "vertices"
  /\ RotationGiven
  /\ sel_volume.rotation_quaternion_wxyz = <<1, 1, 0, 0>>
  /\ sel_volume.radius = 2
  /\ ~Raised(sel_out)
  /\ \E k \in 1..Len(SelElements) :
       SelPicked(k - 1) /\ Dot(Offset(k), Offset(k)) = 4
  /\ \E k \in 1..Len(SelElements) : ~SelPicked(k - 1)

RotatedZ90 ==
  RotationGiven /\ sel_volume.rotation_quaternion_wxyz = <<1, 0, 0, 1>>

\* C15: containment is tested on the point carried into the volume's frame:
\* for a box rotated 90 degrees about Z the world offset (ox, oy, oz) is
\* tested as (oy, -ox, oz), so center+(hx,0,0) is selected iff hx <= hy and
\* center+(0,hy,0) iff hy <= hx.
C15_RotatedBox ==
  (SelOn("box", "dimensions_xyz") /\ RotatedZ90)
    => /\ ~Raised(sel_out)
       /\ \A k \in 1..Len(SelElements) :
            /\ SelPicked(k - 1) <=>
                 /\ 2 * Abs(Offset(k)[2]) <= sel_volume.dimensions_xyz[1]
                 /\ 2 * Abs(Offset(k)[1]) <= sel_volume.dimensions_xyz[2]
                 /\ 2 * Abs(Offset(k)[3]) <= sel_volume.dimensions_xyz[3]
            /\ (/\ 2 * Offset(k)[1] = sel_volume.dimensions_xyz[1]
                /\ Offset(k)[2] = 0
                /\ Offset(k)[3] = 0)
                 => (SelPicked(k - 1) <=>
                       sel_volume.dimensions_xyz[1]
                         <= sel_volume.dimensions_xyz[2])
            /\ (/\ Offset(k)[1] = 0
                /\ 2 * Offset(k)[2] = sel_volume.dimensions_xyz[2]
                /\ Offset(k)[3] = 0)
                 => (SelPicked(k - 1) <=>
                       sel_volume.dimensions_xyz[2]
                         <= sel_volume.dimensions_xyz[1])

C15_Witness ==
  /\ SelOn("box", "dimensions_xyz")
  /\ RotatedZ90
  /\ sel_volume.dimensions_xyz = <<2, 0, 2>>
  /\ ~Raised(sel_out)
  /\ \E k \in 1..Len(SelElements) :
       ~SelPicked(k - 1) /\ Offset(k) = <<1, 0, 0>>
  /\ \E k \in 1..Len(SelElements) :
       SelPicked(k - 1) /\ Offset(k) = <<0, 1, 0>>

\* a call on a mesh with a box, sphere or cylinder that carries its keys
SelOnSupported ==
  \/ SelOn("box", "dimensions_xyz")
  \/ SelOn("sphere", "radius")
  \/ SelOn("cylinder", "dimensions_xyz")

\* C16: the volume's center is carried to the local origin, for every kind,
\* center and rotation, so an element on the center is selected by every
\* volume with non-negative shape parameters, those of zero size included.
C16_CenterIsSelected ==
  SelOnSupported =>
     /\ ToLocal(sel_volume, sel_volume.center_xyz).p = <<0, 0, 0>>
     /\ ~Raised(sel_out)
     /\ \A k \in 1..Len(SelElements) :
          SelElements[k] = sel_volume.center_xyz => SelPicked(k - 1)

C16_Witness ==
  /\ SelOn("sphere", "radius")
  /\ sel_volume.radius = 0
  /\ sel_volume.center_xyz = <<1, 0, -1>>
  /\ RotationGiven
  /\ sel_volume.rotation_quaternion_wxyz = <<1, 1, 0, 0>>
  /\ ~Raised(sel_out)
  /\ Len(sel_out.ret) = 1
  /\ SelElements[sel_out.ret[1] + 1] = <<1, 0, -1>>

\* C17: the returned list is in the mesh's element order (strictly
\* increasing), has no index twice and holds only indices of elements of the
\* element space asked for.
C17_SelectionOrdered ==
  (SelCalled /\ ~Raised(sel_out)) =>
     /\ \A j \in 1..Len(sel_out.ret) :
          sel_out.ret[j] \in 0..(Len(SelElements) - 1)
     /\ \A j, k \in 1..Len(sel_out.ret) :
          j < k => sel_out.ret[j] < sel_out.ret[k]

C17_Witness ==
  /\ sel_site = "vertices"
  /\ sel_obj = SceneObject
  /\ ~Raised(sel_out)
  /\ sel_out.ret = <<0, 1, 3>>

\* C18: when the object is not a mesh both call sites fail with "Object must
\* be a mesh" whatever the volume is, keys missing or not, and return no
\* selection.
C18_NotAMeshIsError ==
  (SelCalled /\ sel_obj.type # "MESH") =>
     sel_out = [exc |-> "Object must be a mesh"]

C18_Witness ==
  /\ sel_site = "faces"
  /\ sel_obj.type = "CAMERA"
  /\ ~Has(sel_volume, "type")
  /\ sel_out = [exc |-> "Object must be a mesh"]

\* C19: an executor built without a schema file validates every batch, so
\* every batch, conforming or not, enters the dispatch loop and none gets the
\* aggregate schema failure; with a schema loaded a batch is validated iff it
\* conforms, and a returned call holds the aggregate failure iff it does not.
C19_NoSchemaPassThrough ==
  /\ schema = LoadedSchema =>
       (Validated <=> SchemaConforms(tool_calls_json))
  /\ schema = NoSchema =>
       /\ Validated
       /\ results # <<SchemaFailure>>
       /\ pc = "returned" => Len(dispatched) = Len(ToolCalls)
  /\ (schema = LoadedSchema /\ pc = "returned") =>
       (results = <<SchemaFailure>> <=> ~SchemaConforms(tool_calls_json))

C19_Witness ==
  /\ schema = NoSchema
  /\ pc = "returned"
  /\ ~SchemaConforms(tool_calls_json)
  /\ Len(ToolCalls) >= 1
  /\ Len(dispatched) = Len(ToolCalls)
  /\ Len(results) = Len(ToolCalls)

\* s occurs in m
Contains(m, s) ==
  \E a \in 1..(Len(m) - Len(s) + 1) : SubSeq(m, a, a + Len(s) - 1) = s

RECURSIVE PyJoinLists(_)
PyJoinLists(rows) ==
  IF Len(rows) = 0 THEN ""
  ELSE IF Len(rows) = 1 THEN PyList(Head(rows))
  ELSE PyList(Head(rows)) \o ", " \o PyJoinLists(Tail(rows))

\* str() of a Python list of lists of ints
PyMatrix(rows) == "[" \o PyJoinLists(rows) \o "]"

\* the text of the operation's defining parameter, the default when the
\* command does not give it
DefiningParameterText(function_name, params) ==
  CASE function_name = "extrude_faces_in_volume" ->
         PyList(Get(params, "extrude_vector", <<0, 0, 1>>))
    [] function_name = "scale_vertices_in_volume" ->
         PyFloat(Get(params, "scale_factor", 10))
    [] function_name = "transform_vertices_in_volume" ->
         PyMatrix(Get(params, "transform_matrix", IdentityMatrix4))
    [] function_name = "apply_material_to_volume" ->
         Get(params, "material_name", "DefaultMaterial")
    [] function_name = "deform_volume_lattice" ->
         PyMatrix(Get(params, "deformation_matrix", IdentityMatrix3))
    [] function_name = "subdivide_faces_in_volume" ->
         PyInt(Get(params, "subdivision_level", 1))
    [] function_name = "inset_faces_in_volume" ->
         PyFloat(Get(params, "inset_depth", 1))

\* C20: the message of every successful result of one of the seven
\* operations contains the volume's type, the volume's center and the
\* operation's defining parameter (extrude vector, scale factor, transform
\* matrix, material name, deformation matrix, subdivision level, inset depth).
C20_MessageNamesParameter ==
  \A k \in 1..Len(dispatched) :
     (/\ k <= Len(results)
      /\ results[k].success
      /\ DispatchedCommand(k).function_name \in FunctionNames)
       => LET c == DispatchedCommand(k)
              v == c.parameters.volume_identifier
          IN /\ Contains(results[k].message, v.type)
             /\ Contains(results[k].message, PyList(v.center_xyz))
             /\ Contains(results[k].message,
                         DefiningParameterText(c.function_name, c.parameters))

\* C21: in every result execute_tool_calls holds or returns, affected_elements
\* is None iff success is false: the schema failure, an unknown function and
\* a caught exception carry None, every success carries a list.
C21_AffectedNoneIffFailure ==
  \A k \in 1..Len(results) :
     /\ results[k].affected_elements = None <=> ~results[k].success
     /\ results[k].success => Has(results[k].affected_elements, "list")

C21_Witness ==
  /\ pc = "returned"
  /\ Validated
  /\ Len(results) = 2
  /\ results[1].success
  /\ Len(results[1].affected_elements.list) > 0
  /\ ~results[2].success
  /\ results[2].affected_elements = None
  /\ ToolCalls[2].function_name \in FunctionNames

\* the command names one of the seven operations and its volume_identifier
\* carries a supported type and a center_xyz
SupportedCommand(tool_call) ==
  /\ Has(tool_call, "function_name")
  /\ tool_call.function_name \in FunctionNames
  /\ Has(tool_call, "parameters")
  /\ HasVolume(tool_call)
  /\ Has(tool_call.parameters.volume_identifier, "type")
  /\ tool_call.parameters.volume_identifier.type \in VolumeTypes
  /\ Has(tool_call.parameters.volume_identifier, "center_xyz")

\* command c omits its operation-specific parameter and d is c with the
\* default given explicitly
DefaultMadeExplicit(c, d) ==
  /\ SupportedCommand(c)
  /\ Has(d, "function_name")
  /\ Has(d, "parameters")
  /\ d.function_name = c.function_name
  /\ DOMAIN DefaultParam(c.function_name) \cap DOMAIN c.parameters = {}
  /\ d.parameters = c.parameters @@ DefaultParam(c.function_name)

\* results of a command with its parameter omitted and of the same command
\* with the default given explicitly are equal
DefaultsAgree ==
  \A j, k \in 1..Len(dispatched) :
     (/\ j <= Len(results)
      /\ k <= Len(results)
      /\ DefaultMadeExplicit(DispatchedCommand(j), DispatchedCommand(k)))
       => results[j] = results[k]

\* C22 as stated: once execute_tool_calls has ended, every supported command
\* of the batch, whatever the batch's length and the command's position, has
\* a result with success = true, and omitting the operation-specific
\* parameter gives the result of the explicit default.
C22_SupportedCommandSucceeds ==
  /\ pc \in {"returned", "reported", "raised"} =>
       \A k \in 1..Len(ToolCalls) :
          SupportedCommand(ToolCalls[k]) =>
            /\ k <= Len(results)
            /\ results[k].success
  /\ DefaultsAgree

\* C22 amended: every supported command that is dispatched has a result with
\* success = true; a batch that passed validation and whose commands all
\* have function_name and parameters returns such a result at the position
\* of each supported command; omitting the operation-specific parameter
\* gives the result of the explicit default.
C22_DispatchedSupportedSucceeds ==
  /\ \A k \in 1..Len(dispatched) :
       SupportedCommand(DispatchedCommand(k)) =>
         /\ k <= Len(results)
         /\ results[k].success
  /\ (pc = "returned" /\ Validated /\ WellShaped) =>
       \A k \in 1..Len(ToolCalls) :
          SupportedCommand(ToolCalls[k]) =>
            /\ k <= Len(results)
            /\ results[k].success
  /\ DefaultsAgree

C22_Witness ==
  /\ pc = "returned"
  /\ Len(ToolCalls) = 2
  /\ DefaultMadeExplicit(ToolCalls[1], ToolCalls[2])
  /\ ToolCalls[1].function_name = "scale_vertices_in_volume"
  /\ Len(results) = 2
  /\ results[1].success
  /\ results[1] = results[2]

\* C23: in the report, the line of result i is numbered i+1 in input order,
\* carries the success marker iff the result succeeded, carries the result's
\* message, and carries the count of affected elements whenever
\* affected_elements is present, an empty list (count 0) included; the count
\* is omitted only when affected_elements is None.
C23_ReportLineCount ==
  pc = "reported" =>
     /\ Len(report.details) = Len(report_input)
     /\ \A k \in 1..Len(report_input) :
          LET line == report.details[k]
              result == report_input[k]
          IN /\ line.number = k
             /\ line.status = "SUCCESS" <=> result.success
             /\ line.status = "FAILED" <=> ~result.success
             /\ line.message = result.message
             /\ line.elements =
                  IF result.affected_elements = None THEN ""
                  ELSE " (affected: "
                         \o PyInt(Len(result.affected_elements.list))
                         \o " elements)"

\* what one command gets when it is dispatched, from its function_name and
\* its parameters alone
ResultFor(tool_call) ==
  LET o == _execute_single_tool(tool_call.function_name, tool_call.parameters)
  IN IF Raised(o) THEN CaughtResult(tool_call.function_name, o.exc)
     ELSE o.ret

\* the outcome of a call is fixed by the executor's schema and the batch:
\* which of return and KeyError it ends in, and the list it returns
OutcomeFixedByBatch ==
  /\ (pc = "returned" /\ Validated) =>
       /\ WellShaped
       /\ results = [k \in 1..Len(ToolCalls) |-> ResultFor(ToolCalls[k])]
  /\ (pc = "returned" /\ ~Validated) => results = <<SchemaFailure>>
  /\ ExecuteRaised => (Validated /\ ~WellShaped)

\* no step changes self.schema, and no step of a call changes the batch
InputsUntouched ==
  /\ schema' = schema
  /\ (pc # "idle" /\ pc' # "idle") => tool_calls_json' = tool_calls_json

\* the command submitted alone to this executor is dispatched
DispatchedAlone(tool_call) ==
  /\ Has(tool_call, "function_name")
  /\ Has(tool_call, "parameters")
  /\ validate_tool_calls(schema, [tool_calls |-> <<tool_call>>])

\* once the call has ended, every command of the batch that is dispatched
\* when submitted alone has at its position the result it gets alone, the
\* one fixed by its function_name and parameters
EveryCommandHasItsResult ==
  pc \in {"returned", "reported", "raised"} =>
     \A k \in 1..Len(ToolCalls) :
        DispatchedAlone(ToolCalls[k])
          => /\ k <= Len(results)
             /\ results[k] = ResultFor(ToolCalls[k])

\* every dispatched command has at its position the result fixed by its
\* function_name and parameters alone
DispatchedHasItsResult ==
  \A k \in 1..Len(dispatched) :
     /\ k <= Len(results)
     /\ results[k] = ResultFor(DispatchedCommand(k))

\* C24 as stated: the result for a command depends only on its function_name
\* and parameters, not on the other commands of the batch, its position or
\* earlier calls; the outcome of a call is fixed by executor and batch (two
\* runs give equal lists); schema and batch are never modified.
C24_ResultDependsOnCommandOnly ==
  /\ [](EveryCommandHasItsResult /\ OutcomeFixedByBatch)
  /\ [][InputsUntouched]_vars

\* C24 amended: the result of every dispatched command depends only on its
\* function_name and parameters; whether a command is dispatched depends on
\* the whole batch (validation, commands lacking function_name or
\* parameters); the outcome of a call is fixed by executor and batch;
\* schema and batch are never modified.
C24_DispatchedResultDependsOnCommandOnly ==
  /\ [](DispatchedHasItsResult /\ OutcomeFixedByBatch)
  /\ [][InputsUntouched]_vars

C24_Witness ==
  /\ pc = "returned"
  /\ Validated
  /\ Len(ToolCalls) = 2
  /\ ToolCalls[1] # ToolCalls[2]
  /\ Len(results) = 2
  /\ results[2] = ResultFor(ToolCalls[2])
  /\ ~results[2].success
  /\ results[1].success
  /\ results[1].affected_elements = Some(<<1, 4, 7, 12>>)

====
